---- MODULE Spec2Model ----
(***************************************************************************)
(* A model of `jj rebase` (cli/src/commands/rebase.rs): the destination    *)
(* resolver, the move-commits planner and the rewrite executor, over a     *)
(* commit store whose commit ids are index positions.                      *)
(***************************************************************************)
EXTENDS Integers, Sequences, FiniteSets, TLC

\* Number of non-root commits of the initial commit graph.
NumCommits == 3
\* Longest list of revisions given to -d / --after / --before / -s / -b.
MaxArgs == 2
\* Most parents of a commit of the initial commit graph.
MaxParents == 2

\* The root commit: the first commit of the index, the only one without parents.
Root == 1

VARIABLES
    store,          \* commit id -> [parent_ids, change_id]; ids are index positions
    visible,        \* the commits of the persisted repository view
    cmd,            \* the RebaseArgs of the running command
    pc,             \* position of the command
    result,         \* [kind, commit]: Ok or the CommandError of the command
    new_parents,    \* resolver output: new parent ids
    new_children,   \* resolver output: new children
    target_commits, \* target commits, in reverse topological order
    target_roots,   \* target roots handed to move_commits
    plan,           \* to_visit_commits_new_parents
    to_visit,       \* the executor's stack
    rewritten,      \* the transaction's parent_mapping: old id -> replacement ids
    stats,          \* MoveCommitsStats
    tx,             \* the transaction: "none", "open" or "finished"
    run,            \* 1 for the first invocation, 2 for its repetition
    from_heads,     \* op diff: the heads of the view of from_repo
    to_heads,       \* op diff: the heads of the view of to_repo
    changes,        \* op diff: the IndexMap of ModifiedChange, in insertion order
    change_parents, \* op diff: change id -> parent change ids
    ordered_changes, \* op diff: the change ids in reverse topological order
    shown           \* op diff: what show_change_diff rendered, per ordered change

\* The variables of `jj op diff`.
diff_vars == <<from_heads, to_heads, changes, change_parents, ordered_changes, shown>>

vars == <<store, visible, cmd, pc, result, new_parents, new_children,
          target_commits, target_roots, plan, to_visit, rewritten, stats, tx, run,
          from_heads, to_heads, changes, change_parents, ordered_changes, shown>>

-----------------------------------------------------------------------------
\* Sequences and maps

SeqRange(s) == {s[i] : i \in 1..Len(s)}

InSeq(x, s) == \E i \in 1..Len(s) : s[i] = x

Rev(s) == [i \in 1..Len(s) |-> s[Len(s) + 1 - i]]

Max(S) == CHOOSE x \in S : \A y \in S : y <= x

Min(S) == CHOOSE x \in S : \A y \in S : x <= y

\* Concatenation of F(s[1]), ..., F(s[n]) (Iterator::flat_map).
FlatMap(F(_), s) ==
    LET r[i \in 0..Len(s)] == IF i = 0 THEN <<>> ELSE r[i - 1] \o F(s[i])
    IN r[Len(s)]

\* The elements of s that satisfy P, in order (Iterator::filter).
Filter(P(_), s) == FlatMap(LAMBDA x : IF P(x) THEN <<x>> ELSE <<>>, s)

\* IndexSet::extend: append the items not yet present, in order.
ExtendUnique(s, items) ==
    LET r[i \in 0..Len(items)] ==
            IF i = 0 THEN s
            ELSE IF InSeq(items[i], r[i - 1]) THEN r[i - 1]
                 ELSE Append(r[i - 1], items[i])
    IN r[Len(items)]

\* Itertools::unique.
Unique(s) == ExtendUnique(<<>>, s)

NoDuplicates(s) == \A i, j \in 1..Len(s) : s[i] = s[j] => i = j

EmptyMap == [x \in {} |-> <<>>]

MapPut(m, k, v) == [x \in DOMAIN m \cup {k} |-> IF x = k THEN v ELSE m[x]]

\* The sequences without repetition of 1..n elements of S.
RECURSIVE ArgSeqs(_, _)
ArgSeqs(S, n) ==
    IF n = 0 THEN {<<>>}
    ELSE LET shorter == ArgSeqs(S, n - 1)
         IN shorter \cup {Append(s, x) : s \in {t \in shorter : Len(t) = n - 1},
                                          x \in S}

DistinctSeqs(S, n) == {s \in ArgSeqs(S, n) : NoDuplicates(s)}

-----------------------------------------------------------------------------
\* The commit graph and the revset engine

Commits == DOMAIN store

parent_ids(c) == store[c].parent_ids

ParentSet(c) == SeqRange(parent_ids(c))

change_id(c) == store[c].change_id

\* Revset iteration order: descending index position (children before parents).
RECURSIVE SeqDesc(_)
SeqDesc(S) == IF S = {} THEN <<>> ELSE <<Max(S)>> \o SeqDesc(S \ {Max(S)})

\* x:: within the commits V, x included.
RECURSIVE DescendantsIn(_, _)
DescendantsIn(V, S) ==
    LET C == {c \in V : ParentSet(c) \cap S # {}}
    IN IF C \subseteq S THEN S ELSE DescendantsIn(V, S \cup C)

\* x:: restricted to the view.
Descendants(S) == DescendantsIn(visible, S)

\* ::x, x included.
RECURSIVE Ancestors(_)
Ancestors(S) ==
    LET P == UNION {ParentSet(c) : c \in S}
    IN IF P \subseteq S THEN S ELSE Ancestors(S \cup P)

\* x+
Children(S) == {c \in visible : ParentSet(c) \cap S # {}}

\* roots::heads
DagRange(roots, heads) == Descendants(roots) \cap Ancestors(heads)

\* connected(x) = x::x
Connected(S) == DagRange(S, S)

\* roots..heads
RangeRevset(roots, heads) == Ancestors(heads) \ Ancestors(roots)

\* roots(x): the commits of x that descend from no other commit of x.
Roots(S) == {c \in S : Ancestors({c}) \cap S = {c}}

\* index().is_ancestor(a, b), true of a commit and itself.
is_ancestor(a, b) == a \in Ancestors({b})

\* WorkspaceCommandHelper::check_rewritable: the first immutable commit, or 0.
check_rewritable(ids) ==
    LET bad == {i \in 1..Len(ids) : ids[i] = Root}
    IN IF bad = {} THEN 0 ELSE ids[Min(bad)]

-----------------------------------------------------------------------------
\* Command results

Ok == [kind |-> "ok", commit |-> 0]

NoResult == [kind |-> "none", commit |-> 0]

Err(kind, commit) == [kind |-> kind, commit |-> commit]

-----------------------------------------------------------------------------
\* The destination resolver

\* Variants of ensure_no_commit_loop that the properties of the resolver tell
\* apart from it: no check at all, a check of shared commits only, and a check
\* of the range taken in the other direction.
NoLoopCheck(children, parents) == Ok

LoopIfShared(children, parents) ==
    IF children \cap parents # {} THEN Err("loop", Max(children \cap parents)) ELSE Ok

ReversedLoopCheck(children, parents) ==
    LET range == DagRange(parents, children)
    IN IF range # {} THEN Err("loop", Max(range)) ELSE Ok

\* ensure_no_commit_loop: the first commit of children::parents, if any.
ensure_no_commit_loop(children, parents) ==
    LET range == DagRange(children, parents)
    IN IF range # {} THEN Err("loop", Max(range)) ELSE Ok

\* A variant of DestinationPair whose --before case takes the parents of the
\* before commits themselves as the new parents.
DestinationPairOfParents(destination, insert_after, insert_before) ==
    IF insert_after # <<>> /\ insert_before # <<>>
    THEN [new_parents |-> insert_after, new_children |-> insert_before]
    ELSE IF insert_after # <<>>
    THEN [new_parents |-> insert_after,
          new_children |-> SeqDesc(Children(SeqRange(insert_after)))]
    ELSE IF insert_before # <<>>
    THEN [new_parents |-> Unique(FlatMap(parent_ids, insert_before)),
          new_children |-> insert_before]
    ELSE [new_parents |-> destination, new_children |-> <<>>]

\* The (new_parents, new_children) pair of compute_destination, before its checks.
DestinationPair(destination, insert_after, insert_before) ==
    IF insert_after # <<>> /\ insert_before # <<>>
    THEN [new_parents |-> insert_after, new_children |-> insert_before]
    ELSE IF insert_after # <<>>
    THEN [new_parents |-> insert_after,
          new_children |-> SeqDesc(Children(SeqRange(insert_after)))]
    ELSE IF insert_before # <<>>
    THEN LET new_parent_ids == Unique(FlatMap(parent_ids, insert_before))
         IN [new_parents |-> SeqDesc(Children(SeqRange(new_parent_ids))),
             new_children |-> insert_before]
    ELSE [new_parents |-> destination, new_children |-> <<>>]

\* A variant of SelfRebased that finds no target among the destinations.
NoSelfRebased(targets, destination) == {}

\* The targets that are also destinations ("Cannot rebase ... onto itself").
SelfRebased(targets, destination) ==
    {i \in 1..Len(targets) : InSeq(targets[i], destination)}

compute_destination(targets, destination, insert_after, insert_before, rebase_descendants) ==
    LET pair == DestinationPair(destination, insert_after, insert_before)
        selfs == SelfRebased(targets, destination)
        immutable == check_rewritable(pair.new_children)
        loop == ensure_no_commit_loop(SeqRange(pair.new_children),
                                      SeqRange(pair.new_parents))
        err == IF insert_after = <<>> /\ insert_before = <<>>
                  /\ ~rebase_descendants /\ selfs # {}
               THEN Err("onto_itself", targets[Min(selfs)])
               ELSE IF pair.new_children = <<>> THEN Ok
               ELSE IF immutable # 0 THEN Err("immutable", immutable)
               ELSE loop
    IN [err |-> err, new_parents |-> pair.new_parents,
        new_children |-> pair.new_children]

\* A variant of check_rebase_destinations with the arguments of is_ancestor
\* exchanged.
check_rebase_destinations_swapped(parents, roots) ==
    LET bad == {<<i, j>> \in (1..Len(roots)) \X (1..Len(parents)) :
                    is_ancestor(parents[j], roots[i])}
        first == CHOOSE b \in bad : \A o \in bad :
                    b[1] < o[1] \/ (b[1] = o[1] /\ b[2] <= o[2])
    IN IF bad = {} THEN Ok
       ELSE [kind |-> "onto_descendant", commit |-> roots[first[1]],
             parent |-> parents[first[2]]]

\* check_rebase_destinations for every target root, in order.
check_rebase_destinations(parents, roots) ==
    LET bad == {<<i, j>> \in (1..Len(roots)) \X (1..Len(parents)) :
                    is_ancestor(roots[i], parents[j])}
        first == CHOOSE b \in bad : \A o \in bad :
                    b[1] < o[1] \/ (b[1] = o[1] /\ b[2] <= o[2])
    IN IF bad = {} THEN Ok
       ELSE [kind |-> "onto_descendant", commit |-> roots[first[1]],
             parent |-> parents[first[2]]]

-----------------------------------------------------------------------------
\* The move-commits planner

connected_target_commits(targets) == SeqDesc(Connected(SeqRange(targets)))

\* A variant of connected_target_commits_internal_parents that records the
\* direct target parents only.
DirectInternalParents(targets) ==
    [c \in Connected(SeqRange(targets)) |-> Filter(LAMBDA q : InSeq(q, targets), parent_ids(c))]

\* The parents of every commit of the connected target set, allowing only
\* target commits as parents.
connected_target_commits_internal_parents(targets) ==
    LET order == Rev(connected_target_commits(targets))
        T == SeqRange(targets)
        m[i \in 0..Len(order)] ==
            IF i = 0 THEN EmptyMap
            ELSE MapPut(m[i - 1], order[i],
                        FlatMap(LAMBDA old_parent :
                                    IF old_parent \in T THEN <<old_parent>>
                                    ELSE IF old_parent \in DOMAIN m[i - 1]
                                         THEN m[i - 1][old_parent]
                                         ELSE <<>>,
                                parent_ids(order[i])))
    IN m[Len(order)]

\* A variant of TargetRoots that always computes the roots of the connected
\* target set.
ComputedTargetRoots(targets, roots) ==
    LET internal == connected_target_commits_internal_parents(targets)
    IN {c \in DOMAIN internal : internal[c] = <<>>}

\* The roots of the target set: the given ones, or the commits of the
\* connected target set without internal parents.
TargetRoots(targets, roots) ==
    IF roots = <<>>
    THEN LET internal == connected_target_commits_internal_parents(targets)
         IN {c \in DOMAIN internal : internal[c] = <<>>}
    ELSE SeqRange(roots)

\* A variant of target_commits_external_parents that records the parents of
\* every target as they are.
DirectParents(targets) == [t \in SeqRange(targets) |-> parent_ids(t)]

\* A variant of target_commits_external_parents that goes through the targets
\* in the order given, children before parents.
ExternalParentsChildrenFirst(targets) ==
    LET m[i \in 0..Len(targets)] ==
            IF i = 0 THEN EmptyMap
            ELSE MapPut(m[i - 1], targets[i],
                        ExtendUnique(<<>>,
                            FlatMap(LAMBDA old_parent :
                                        IF old_parent \in DOMAIN m[i - 1]
                                        THEN m[i - 1][old_parent]
                                        ELSE <<old_parent>>,
                                    parent_ids(targets[i]))))
    IN m[Len(targets)]

\* A variant of target_commits_external_parents that records nothing.
NoExternalParents(targets) == EmptyMap

\* For every target, its ancestors outside the target set that replace it as
\* a parent.
target_commits_external_parents(targets) ==
    LET order == Rev(targets)
        m[i \in 0..Len(order)] ==
            IF i = 0 THEN EmptyMap
            ELSE MapPut(m[i - 1], order[i],
                        ExtendUnique(<<>>,
                            FlatMap(LAMBDA old_parent :
                                        IF old_parent \in DOMAIN m[i - 1]
                                        THEN m[i - 1][old_parent]
                                        ELSE <<old_parent>>,
                                    parent_ids(order[i]))))
    IN m[Len(order)]

\* A variant of NormalizedNewParentIds that leaves the new parents as given.
GivenNewParentIds(parents, targets) == parents

\* new_parent_ids after replacing targets by their external parents.
NormalizedNewParentIds(parents, targets) ==
    LET external == target_commits_external_parents(targets)
    IN FlatMap(LAMBDA parent_id :
                   IF parent_id \in DOMAIN external THEN external[parent_id]
                   ELSE <<parent_id>>,
               parents)

\* For every target, its descendants outside the target set by up to one
\* generation.
target_commit_external_descendants(targets) ==
    LET T == SeqRange(targets)
        order == SeqDesc(T \cup Children(T))
        Seeded(map, commit) ==
            IF commit \in DOMAIN map THEN map
            ELSE MapPut(map, commit, IF commit \in T THEN <<>> ELSE <<commit>>)
        Spread(map, commit) ==
            LET children == map[commit]
                ps == parent_ids(commit)
                n[j \in 0..Len(ps)] ==
                    IF j = 0 THEN map
                    ELSE IF ps[j] \notin T THEN n[j - 1]
                    ELSE IF ps[j] \in DOMAIN n[j - 1]
                         THEN MapPut(n[j - 1], ps[j],
                                     ExtendUnique(n[j - 1][ps[j]], children))
                         ELSE MapPut(n[j - 1], ps[j], Unique(children))
            IN n[Len(ps)]
        m[i \in 0..Len(order)] ==
            IF i = 0 THEN EmptyMap
            ELSE Spread(Seeded(m[i - 1], order[i]), order[i])
    IN m[Len(order)]

\* A variant of NormalizedNewChildren that leaves the new children as given.
GivenNewChildren(children, targets) == children

\* new_children after replacing targets by their external descendants.
NormalizedNewChildren(children, targets) ==
    IF \E i \in 1..Len(children) : InSeq(children[i], targets)
    THEN LET external == target_commit_external_descendants(targets)
         IN FlatMap(LAMBDA child :
                        IF child \in DOMAIN external THEN external[child]
                        ELSE <<child>>,
                    children)
    ELSE children

\* A variant of target_heads that finds no head.
NoTargetHeads(targets) == <<>>

\* The heads of the target set, in index order.
target_heads(targets) ==
    LET order == Rev(connected_target_commits(targets))
        h[i \in 0..Len(order)] ==
            IF i = 0 THEN {}
            ELSE (h[i - 1] \cup {order[i]}) \ ParentSet(order[i])
    IN Filter(LAMBDA c : c \in h[Len(order)] /\ InSeq(c, targets), order)

\* A variant of new_child_parent_ids that keeps the new parents among the
\* parents of the new child.
NewChildParentsUnfiltered(child, parents, targets) ==
    LET external == target_commits_external_parents(targets)
        replaced == FlatMap(LAMBDA id : IF id \in DOMAIN external THEN external[id] ELSE <<id>>, parent_ids(child))
    IN ExtendUnique(Unique(replaced), target_heads(targets))

\* The parents of one new child: its parents with targets replaced by their
\* external parents, without the new parents, plus the target heads.
new_child_parent_ids(child, parents, targets) ==
    LET external == target_commits_external_parents(targets)
        replaced == FlatMap(LAMBDA id :
                                IF id \in DOMAIN external THEN external[id]
                                ELSE <<id>>,
                            parent_ids(child))
        kept == Filter(LAMBDA id : ~InSeq(id, parents), replaced)
    IN ExtendUnique(Unique(kept), target_heads(targets))

\* The commits to visit: the target roots, the new children and their
\* descendants, in revset order.
to_visit_commits(roots, children) ==
    SeqDesc(Descendants(roots \cup SeqRange(children)))

\* A variant of NewParentsOf that plans every visited commit outside the target
\* set as a new child, and every target as a target root.
NewParentsOfAsNewChild(commit_id, parents, children, targets, roots) ==
    IF InSeq(commit_id, targets) THEN parents
    ELSE new_child_parent_ids(commit_id, parents, targets)

\* A variant of NewParentsOf that keeps every parent of a target that is no
\* root and no new child.
NewParentsOfKeepingParents(commit_id, parents, children, targets, roots) ==
    IF InSeq(commit_id, children) THEN new_child_parent_ids(commit_id, parents, targets)
    ELSE IF InSeq(commit_id, targets) /\ commit_id \in roots THEN parents
    ELSE IF InSeq(commit_id, targets) THEN parent_ids(commit_id)
    ELSE LET external == target_commits_external_parents(targets)
         IN FlatMap(LAMBDA parent : IF parent \in DOMAIN external THEN external[parent] ELSE <<parent>>, parent_ids(commit_id))

\* The planned parents of one visited commit; `parents` and `children` are
\* the normalized new parents and new children.
NewParentsOf(commit_id, parents, children, targets, roots) ==
    LET T == SeqRange(targets)
        internal == connected_target_commits_internal_parents(targets)
        external == target_commits_external_parents(targets)
    IN IF InSeq(commit_id, children)
       THEN new_child_parent_ids(commit_id, parents, targets)
       ELSE IF commit_id \in T
       THEN IF commit_id \in roots THEN parents
            ELSE FlatMap(LAMBDA parent_id :
                             IF parent_id \in T THEN <<parent_id>>
                             ELSE IF parent_id \in DOMAIN internal
                                  THEN internal[parent_id]
                             ELSE IF ~\E i \in 1..Len(children) :
                                         is_ancestor(children[i], parent_id)
                                  THEN <<parent_id>>
                                  ELSE <<>>,
                         parent_ids(commit_id))
       ELSE IF \E id \in ParentSet(commit_id) : id \in DOMAIN external
       THEN FlatMap(LAMBDA parent :
                        IF parent \in DOMAIN external THEN external[parent]
                        ELSE <<parent>>,
                    parent_ids(commit_id))
       ELSE parent_ids(commit_id)

\* to_visit_commits_new_parents, from the arguments of move_commits.
to_visit_commits_new_parents(parents, children, targets, given_roots) ==
    LET roots == TargetRoots(targets, given_roots)
        np == NormalizedNewParentIds(parents, targets)
        nc == NormalizedNewChildren(children, targets)
        visit == SeqRange(to_visit_commits(roots, nc))
    IN [c \in visit |-> NewParentsOf(c, np, nc, targets, roots)]

-----------------------------------------------------------------------------
\* The execution order

\* No order: commit ids start at 1.
GraphHasCycle == <<0>>

\* The neighbours closure handed to topo_order_reverse: the planned parents
\* that are to be visited and have not been visited yet.
UnvisitedNewParents(commit_id, P, visited) ==
    Filter(LAMBDA id : id \in DOMAIN P /\ id \notin visited, P[commit_id])

\* dag_walk::topo_order_forward: depth-first, a node after its neighbours.
\* The result is GraphHasCycle where the walk panics ("graph has cycle").
RECURSIVE topo_order_forward(_, _, _, _, _, _)
topo_order_forward(stack, visiting, emitted, visited, order, P) ==
    IF stack = <<>> THEN order
    ELSE LET top == stack[Len(stack)]
             rest == SubSeq(stack, 1, Len(stack) - 1)
         IN IF top.id \in emitted
            THEN topo_order_forward(rest, visiting, emitted, visited, order, P)
            ELSE IF ~top.neighbors_visited
            THEN IF top.id \in visiting THEN GraphHasCycle
                 ELSE LET seen == visited \cup {top.id}
                          neighbors == UnvisitedNewParents(top.id, P, seen)
                          pushed == [i \in 1..Len(neighbors) |->
                                        [id |-> neighbors[i],
                                         neighbors_visited |-> FALSE]]
                      IN topo_order_forward(
                             rest \o <<[id |-> top.id, neighbors_visited |-> TRUE]>>
                                  \o pushed,
                             visiting \cup {top.id}, emitted, seen, order, P)
            ELSE topo_order_forward(rest, visiting \ {top.id},
                                    emitted \cup {top.id}, visited,
                                    Append(order, top.id), P)

\* dag_walk::topo_order_reverse: a node before its neighbours.
topo_order_reverse(start, P) ==
    LET stack == [i \in 1..Len(start) |-> [id |-> start[i], neighbors_visited |-> FALSE]]
        forward == topo_order_forward(stack, {}, {}, {}, <<>>, P)
    IN IF forward = GraphHasCycle THEN forward ELSE Rev(forward)

\* A variant of ExecutionOrder that keeps the order of the revset.
UnsortedOrder(keys, P) == keys

\* The executor's stack: popped from the end, new parents first.
ExecutionOrder(keys, P) == topo_order_reverse(keys, P)

-----------------------------------------------------------------------------
\* The transaction

\* MutableRepo::new_parents: the ids resolved through the parent mapping,
\* without repetition.
RECURSIVE Substituted(_, _)
Substituted(ids, mapping) ==
    LET next == FlatMap(LAMBDA id : IF id \in DOMAIN mapping THEN mapping[id].ids
                                    ELSE <<id>>,
                        ids)
    IN IF next = ids THEN ids ELSE Substituted(next, mapping)

mut_repo_new_parents(ids) == Unique(Substituted(ids, rewritten))

\* A variant of parents_changed that reports a change for every commit.
ParentsAlwaysChanged(old_commit, new_parent_ids) == TRUE

\* CommitRewriter::parents_changed
parents_changed(old_commit, new_parent_ids) == new_parent_ids # parent_ids(old_commit)

\* The commits written by the transaction.
NewCommits == UNION {SeqRange(rewritten[o].ids) : o \in {x \in DOMAIN rewritten : ~rewritten[x].abandoned}}

ZeroStats == [num_rebased_targets |-> 0, num_rebased_descendants |-> 0, num_skipped_rebases |-> 0, num_abandoned |-> 0]

\* What rebase_commit_with_options may answer: an emptied commit is abandoned
\* only under --skip-empty and only when it has a single parent; writing the
\* commit may fail with an error of the store.
RebaseOutcomes(new_parent_ids) ==
    IF cmd.skip_empty /\ Len(new_parent_ids) = 1 THEN {"rewritten", "abandoned", "failed"}
    ELSE {"rewritten", "failed"}

-----------------------------------------------------------------------------
\* Initial states: a commit graph and a command line

\* The parent lists a commit may have when the index holds commits 1..n.
ParentChoices(n) ==
    {Rev(SeqDesc(S)) : S \in {X \in SUBSET (1..n) : X # {} /\ Cardinality(X) <= MaxParents}}

\* The stores of n commits: the root, then commits whose parents precede them.
RECURSIVE Stores(_)
Stores(n) ==
    IF n = 1 THEN {<<[parent_ids |-> <<>>, change_id |-> Root]>>}
    ELSE {Append(s, [parent_ids |-> ps, change_id |-> n]) : s \in Stores(n - 1), ps \in ParentChoices(n - 1)}

\* The revision lists a flag may resolve to.
RevLists(V) == DistinctSeqs(V, MaxArgs) \ {<<>>}

NoArgs == [mode |-> "r", revisions |-> {}, source |-> <<>>, branch |-> <<>>, destination |-> <<>>, insert_after |-> <<>>, insert_before |-> <<>>, skip_empty |-> FALSE]

\* The target sets -r may resolve to; the immutable root only on its own.
RevisionSets(V) == SUBSET (V \ {Root}) \cup {{Root}}

\* jj rebase -r REVS (-d DEST | [--after A] [--before B])
RevisionsCommand(c, V) ==
    \E T \in RevisionSets(V) :
        \/ \E d \in RevLists(V) : c = [NoArgs EXCEPT !.revisions = T, !.destination = d]
        \/ \E a \in RevLists(V) : c = [NoArgs EXCEPT !.revisions = T, !.insert_after = a]
        \/ \E b \in RevLists(V) : c = [NoArgs EXCEPT !.revisions = T, !.insert_before = b]
        \/ \E a \in RevLists(V), b \in RevLists(V) :
              c = [NoArgs EXCEPT !.revisions = T, !.insert_after = a, !.insert_before = b]

\* jj rebase -s SOURCE -d DEST [--skip-empty]
SourceCommand(c, V) ==
    \E r \in RevLists(V), d \in RevLists(V), e \in BOOLEAN :
        c = [NoArgs EXCEPT !.mode = "s", !.source = r, !.destination = d, !.skip_empty = e]

\* jj rebase -b BRANCH -d DEST [--skip-empty]
BranchCommand(c, V) ==
    \E r \in RevLists(V), d \in RevLists(V), e \in BOOLEAN :
        c = [NoArgs EXCEPT !.mode = "b", !.branch = r, !.destination = d, !.skip_empty = e]

\* No op diff has been computed.
NoDiff ==
    /\ from_heads = {}
    /\ to_heads = {}
    /\ changes = <<>>
    /\ change_parents = EmptyMap
    /\ ordered_changes = <<>>
    /\ shown = <<>>

Init ==
    /\ store \in Stores(NumCommits + 1)
    /\ visible = 1..(NumCommits + 1)
    /\ \/ RevisionsCommand(cmd, 1..(NumCommits + 1))
       \/ SourceCommand(cmd, 1..(NumCommits + 1))
       \/ BranchCommand(cmd, 1..(NumCommits + 1))
    /\ pc = "invoked"
    /\ result = NoResult
    /\ new_parents = <<>>
    /\ new_children = <<>>
    /\ target_commits = <<>>
    /\ target_roots = <<>>
    /\ plan = EmptyMap
    /\ to_visit = <<>>
    /\ rewritten = EmptyMap
    /\ stats = ZeroStats
    /\ tx = "none"
    /\ run = 1
    /\ NoDiff

-----------------------------------------------------------------------------
\* The command

\* The command ends with `r` before any transaction is started.
Fails(r) ==
    /\ pc' = "done"
    /\ result' = r
    /\ UNCHANGED <<store, visible, cmd, new_parents, new_children, target_commits, target_roots, plan, to_visit, rewritten, stats, tx, run>>
    /\ UNCHANGED diff_vars

\* The resolved arguments are handed to the transaction wrapper.
Resolved(parents, children, targets, roots) ==
    /\ pc' = "resolved"
    /\ new_parents' = parents
    /\ new_children' = children
    /\ target_commits' = targets
    /\ target_roots' = roots
    /\ UNCHANGED <<store, visible, cmd, result, plan, to_visit, rewritten, stats, tx, run>>
    /\ UNCHANGED diff_vars

\* rebase_revisions up to its call of move_commits_transaction.
RebaseRevisions ==
    /\ pc = "invoked"
    /\ cmd.mode = "r"
    /\ LET targets == SeqDesc(cmd.revisions)
           immutable == check_rewritable(targets)
           dest == compute_destination(targets, cmd.destination, cmd.insert_after, cmd.insert_before, FALSE)
       IN IF immutable # 0 THEN Fails(Err("immutable", immutable))
          ELSE IF dest.err # Ok THEN Fails(dest.err)
          ELSE Resolved(dest.new_parents, dest.new_children, targets, <<>>)

\* The checks of rebase_descendants_transaction before its transaction.
RebaseDescendants(parents, roots) ==
    LET immutable == check_rewritable(roots)
        onto == check_rebase_destinations(parents, roots)
    IN IF roots = <<>> THEN Fails(Ok)
       ELSE IF immutable # 0 THEN Fails(Err("immutable", immutable))
       ELSE IF onto # Ok THEN Fails(onto)
       ELSE Resolved(parents, <<>>, SeqDesc(Descendants(SeqRange(roots))), roots)

\* cmd_rebase with -s.
RebaseSource ==
    /\ pc = "invoked"
    /\ cmd.mode = "s"
    /\ RebaseDescendants(cmd.destination, cmd.source)

\* A variant of RebaseBranch that takes the branch revisions themselves as the
\* target roots.
RebaseBranchAsSource ==
    /\ pc = "invoked"
    /\ cmd.mode = "b"
    /\ RebaseDescendants(cmd.destination, cmd.branch)

\* rebase_branch: the target roots are roots(destination..branch).
RebaseBranch ==
    /\ pc = "invoked"
    /\ cmd.mode = "b"
    /\ RebaseDescendants(cmd.destination, SeqDesc(Roots(RangeRevset(SeqRange(cmd.destination), SeqRange(cmd.branch)))))

\* move_commits up to its executor loop, in a new transaction; without
\* targets no transaction is started.
MoveCommits ==
    /\ pc = "resolved"
    /\ IF target_commits = <<>>
       THEN /\ pc' = "done"
            /\ result' = Ok
            /\ UNCHANGED <<plan, to_visit, tx>>
       ELSE LET P == to_visit_commits_new_parents(new_parents, new_children, target_commits, target_roots)
                keys == SeqDesc(DOMAIN P)
                order == ExecutionOrder(keys, P)
            IN /\ plan' = P
               /\ tx' = "open"
               /\ IF order = GraphHasCycle
                  THEN /\ pc' = "done"
                       /\ result' = Err("panic", 0)
                       /\ to_visit' = <<>>
                  ELSE /\ pc' = "executing"
                       /\ result' = result
                       /\ to_visit' = order
    /\ UNCHANGED <<store, visible, cmd, new_parents, new_children, target_commits, target_roots, rewritten, stats, run>>
    /\ UNCHANGED diff_vars

\* A variant of RewriteFailed that finishes the transaction with the commits
\* rewritten so far.
RewriteFailedAfterFinish(old_commit_id) ==
    /\ pc' = "done"
    /\ result' = Err("backend", old_commit_id)
    /\ tx' = "finished"
    /\ visible' = (visible \ DOMAIN rewritten) \cup NewCommits
    /\ UNCHANGED <<store, rewritten, stats>>

\* rebase_commit_with_options fails: move_commits returns the error and the
\* transaction is dropped unfinished.
RewriteFailed(old_commit_id) ==
    /\ pc' = "done"
    /\ result' = Err("backend", old_commit_id)
    /\ UNCHANGED <<store, rewritten, stats, visible, tx>>

\* One iteration of the executor loop.
RewriteCommit ==
    /\ pc = "executing"
    /\ to_visit # <<>>
    /\ LET old_commit_id == to_visit[Len(to_visit)]
           new_parent_ids == mut_repo_new_parents(plan[old_commit_id])
           new_id == Len(store) + 1
       IN /\ to_visit' = SubSeq(to_visit, 1, Len(to_visit) - 1)
          /\ IF ~parents_changed(old_commit_id, new_parent_ids)
             THEN /\ stats' = [stats EXCEPT !.num_skipped_rebases = @ + 1]
                  /\ UNCHANGED <<store, rewritten, pc, result, visible, tx>>
             ELSE IF new_parent_ids = <<>>
             THEN /\ pc' = "done"
                  /\ result' = Err("panic", old_commit_id)
                  /\ UNCHANGED <<store, rewritten, stats, visible, tx>>
             ELSE \E outcome \in RebaseOutcomes(new_parent_ids) :
                    IF outcome = "failed" THEN RewriteFailed(old_commit_id)
                    ELSE /\ UNCHANGED <<pc, result, visible, tx>>
                         /\ IF outcome = "abandoned"
                            THEN /\ rewritten' = MapPut(rewritten, old_commit_id, [ids |-> new_parent_ids, abandoned |-> TRUE])
                                 /\ stats' = [stats EXCEPT !.num_abandoned = @ + 1]
                                 /\ UNCHANGED store
                            ELSE /\ store' = Append(store, [parent_ids |-> new_parent_ids, change_id |-> change_id(old_commit_id)])
                                 /\ rewritten' = MapPut(rewritten, old_commit_id, [ids |-> <<new_id>>, abandoned |-> FALSE])
                                 /\ stats' = IF InSeq(old_commit_id, target_commits)
                                             THEN [stats EXCEPT !.num_rebased_targets = @ + 1]
                                             ELSE [stats EXCEPT !.num_rebased_descendants = @ + 1]
    /\ UNCHANGED <<cmd, new_parents, new_children, target_commits, target_roots, plan, run>>
    /\ UNCHANGED diff_vars

\* The end of move_commits and tx.finish: the rewritten and abandoned commits
\* leave the view and the new commits enter it.
Finish ==
    /\ pc = "executing"
    /\ to_visit = <<>>
    /\ pc' = "done"
    /\ result' = Ok
    /\ tx' = "finished"
    /\ visible' = (visible \ DOMAIN rewritten) \cup NewCommits
    /\ UNCHANGED <<store, cmd, new_parents, new_children, target_commits, target_roots, plan, to_visit, rewritten, stats, run>>
    /\ UNCHANGED diff_vars

Next ==
    \/ RebaseRevisions
    \/ RebaseSource
    \/ RebaseBranch
    \/ MoveCommits
    \/ RewriteCommit
    \/ Finish

Spec == Init /\ [][Next]_vars

-----------------------------------------------------------------------------
\* Repeating the command on its own result

\* The visible commit of a change, if the change still has one.
HasLive(change) == \E c \in visible : change_id(c) = change

LiveOf(change) == CHOOSE c \in visible : change_id(c) = change

\* The same revisions, named by change id.
SameRevisions(s) == [i \in 1..Len(s) |-> LiveOf(change_id(s[i]))]

Named == cmd.revisions \cup SeqRange(cmd.source) \cup SeqRange(cmd.branch) \cup SeqRange(cmd.destination) \cup SeqRange(cmd.insert_after) \cup SeqRange(cmd.insert_before)

\* The same command line is run again on the repository the first run left.
Rerun ==
    /\ pc = "done"
    /\ result = Ok
    /\ tx = "finished"
    /\ run = 1
    /\ \A c \in Named : HasLive(change_id(c))
    /\ cmd' = [cmd EXCEPT !.revisions = {LiveOf(change_id(c)) : c \in cmd.revisions},
                          !.source = SameRevisions(cmd.source),
                          !.branch = SameRevisions(cmd.branch),
                          !.destination = SameRevisions(cmd.destination),
                          !.insert_after = SameRevisions(cmd.insert_after),
                          !.insert_before = SameRevisions(cmd.insert_before)]
    /\ pc' = "invoked"
    /\ result' = NoResult
    /\ new_parents' = <<>>
    /\ new_children' = <<>>
    /\ target_commits' = <<>>
    /\ target_roots' = <<>>
    /\ plan' = EmptyMap
    /\ to_visit' = <<>>
    /\ rewritten' = EmptyMap
    /\ stats' = ZeroStats
    /\ tx' = "none"
    /\ run' = 2
    /\ UNCHANGED <<store, visible>>
    /\ UNCHANGED diff_vars

NextTwice ==
    \/ Next
    \/ Rerun

SpecTwice == Init /\ [][NextTwice]_vars

-----------------------------------------------------------------------------
\* Properties of the executor

\* The commits the executor loop has popped so far.
Popped == DOMAIN plan \ SeqRange(to_visit)

\* A successful command that ran its transaction to the end.
Moved == pc = "done" /\ result = Ok /\ tx = "finished"

\* C1: the executor pops every commit of the visit set once, and pops a commit
\* only after every commit of its planned new-parent list that is itself in
\* the visit set has been popped; planned parents outside the visit set are
\* not waited for.
C1_RewrittenAfterNewParents ==
    pc = "executing" =>
        /\ SeqRange(to_visit) \subseteq DOMAIN plan
        /\ NoDuplicates(to_visit)
        /\ \A c \in Popped : \A p \in SeqRange(plan[c]) : p \in DOMAIN plan => p \in Popped

\* C1 witness: a commit has been popped whose planned parent is a visited
\* commit that the revset order lists after it, next to a planned parent
\* outside the visit set.
C1_Witness ==
    /\ pc = "executing"
    /\ \E c \in Popped : \E p \in SeqRange(plan[c]) : p \in DOMAIN plan /\ p > c
    /\ \E c \in Popped : \E p \in SeqRange(plan[c]) : p \notin DOMAIN plan

\* The changes that are parents of a change in the view.
ChangeParents(change) ==
    UNION {{change_id(p) : p \in ParentSet(c)} : c \in {v \in visible : change_id(v) = change}}

\* The changes reachable from the changes S through parents, S included.
RECURSIVE ChangeAncestors(_)
ChangeAncestors(S) ==
    LET P == UNION {ChangeParents(change) : change \in S}
    IN IF P \subseteq S THEN S ELSE ChangeAncestors(S \cup P)

\* C2: after a successful move the parent lists of the commits of the view
\* name commits of the view only, and no commit of the view is reachable from
\* itself through one or more parent edges.
C2_AcyclicAfterMove ==
    Moved =>
        /\ \A c \in visible : ParentSet(c) \subseteq visible
        /\ \A c \in visible : change_id(c) \notin ChangeAncestors(ChangeParents(change_id(c)))

\* C2 witness: a successful insertion between new parents and new children
\* that rewrote a target and a new child.
C2_Witness ==
    /\ Moved
    /\ new_children # <<>>
    /\ stats.num_rebased_targets > 0
    /\ stats.num_rebased_descendants > 0

\* C3: the second run of the same command rewrites nothing: its counters of
\* rebased targets, rebased descendants and abandoned commits stay 0, and when
\* it ends every commit it visited is counted as skipped.
C3_SecondRunRewritesNothing ==
    run = 2 =>
        /\ stats.num_rebased_targets = 0
        /\ stats.num_rebased_descendants = 0
        /\ stats.num_abandoned = 0
        /\ Moved => stats.num_skipped_rebases = Cardinality(DOMAIN plan)

\* The view the transaction started from.
PreVisible == (visible \ NewCommits) \cup DOMAIN rewritten

\* The commit that stands for c after the move.
Successor(c) ==
    IF c \in DOMAIN rewritten /\ ~rewritten[c].abandoned THEN rewritten[c].ids[1] ELSE c

\* The parent set of c before and after the move, by change.
PreParents(c) == {change_id(p) : p \in ParentSet(c)}

PostParents(c) == {change_id(p) : p \in ParentSet(Successor(c))}

\* The commits of the starting view that are no target and descend from none.
OutsideTargets == PreVisible \ DescendantsIn(PreVisible, SeqRange(target_commits))

\* C4 as stated: after a successful move every commit that is no target and
\* descends from no target has the parent set it had before, the new children
\* included.
C4_ParentsKeptOutsideTargets ==
    Moved => \A c \in OutsideTargets : PostParents(c) = PreParents(c)

\* C4 amended: after a successful move every commit that is no target,
\* descends from no target and is not one of the new children has the parent
\* set it had before; if it descends from no new child either it is not
\* rewritten at all.
C4_ParentsKeptOutsideTargetsAndNewChildren ==
    Moved =>
        \A c \in OutsideTargets \ SeqRange(new_children) :
            /\ PostParents(c) = PreParents(c)
            /\ c \notin DescendantsIn(PreVisible, SeqRange(new_children)) =>
                   c \notin DOMAIN rewritten /\ c \in visible

\* C4 witness: a successful move rewrote a commit that is no target, descends
\* from no target and is no new child.
C4_Witness ==
    /\ Moved
    /\ \E c \in OutsideTargets \ SeqRange(new_children) : c \in DOMAIN rewritten

-----------------------------------------------------------------------------
\* Properties of the destination resolver

\* rebase -r has passed the rewritability check of its targets and has called
\* compute_destination; the view is still the one the resolver read.
ResolverCalled ==
    /\ cmd.mode = "r"
    /\ pc # "invoked"
    /\ tx # "finished"
    /\ Root \notin cmd.revisions

\* The resolver returned without an error: the command ended well or went on
\* to its transaction.
ResolverPassed == pc = "done" => result = Ok \/ tx # "none"

\* x lies on a path from a commit of `children` up to a commit of `parents`.
OnPath(x, children, parents) ==
    \E c \in children, p \in parents : is_ancestor(c, x) /\ is_ancestor(x, p)

\* The loop check of the resolver, with or without the premise that the new
\* children are rewritable.
LoopChecked(rewritable_only) ==
    ResolverCalled =>
        LET pair == DestinationPair(cmd.destination, cmd.insert_after, cmd.insert_before)
            children == SeqRange(pair.new_children)
            parents == SeqRange(pair.new_parents)
        IN children # {} /\ (rewritable_only => Root \notin children) =>
               IF \E x \in Commits : OnPath(x, children, parents)
               THEN /\ pc = "done"
                    /\ result.kind = "loop"
                    /\ OnPath(result.commit, children, parents)
                    /\ tx = "none"
               ELSE result.kind # "loop" /\ (Root \notin children => ResolverPassed)

\* C5 as stated: with new children, a path from a new child to a new parent
\* makes the resolver fail with the loop error, naming a commit on such a
\* path, before any transaction; without such a path the check passes.
C5_LoopErrorOnPath == LoopChecked(FALSE)

\* C5 amended: the same, given that every new child is rewritable; an
\* immutable new child is reported first, by the rewritability check.
C5_LoopErrorOnPathOfRewritable == LoopChecked(TRUE)

\* C5 witness: the loop error for a new child that is a proper ancestor of a
\* new parent.
C5_Witness ==
    /\ ResolverCalled
    /\ result.kind = "loop"
    /\ cmd.insert_after # <<>>
    /\ cmd.insert_before # <<>>
    /\ SeqRange(cmd.insert_after) \cap SeqRange(cmd.insert_before) = {}

\* C6 as stated: when there are new children and each of them descends from
\* the new parents, the command fails with the loop error.
C6_LoopErrorForDescendantChildren ==
    ResolverCalled =>
        LET pair == DestinationPair(cmd.destination, cmd.insert_after, cmd.insert_before)
            children == SeqRange(pair.new_children)
            parents == SeqRange(pair.new_parents)
        IN children # {} /\ children \subseteq Descendants(parents) =>
               pc = "done" /\ result.kind = "loop"

\* C6 amended: when there are rewritable new children and each of them
\* descends from the new parents, the command fails with the loop error
\* exactly if some new parent is a new child or descends from one; otherwise
\* the resolver accepts the destination.
C6_LoopErrorForDescendantParents ==
    ResolverCalled =>
        LET pair == DestinationPair(cmd.destination, cmd.insert_after, cmd.insert_before)
            children == SeqRange(pair.new_children)
            parents == SeqRange(pair.new_parents)
        IN children # {} /\ Root \notin children /\ children \subseteq Descendants(parents) =>
               IF parents \cap Descendants(children) # {}
               THEN pc = "done" /\ result.kind = "loop"
               ELSE ResolverPassed

\* C6 witness: the resolver accepted new children that all descend from the
\* new parents.
C6_Witness ==
    /\ ResolverCalled
    /\ pc = "resolved"
    /\ new_children # <<>>
    /\ SeqRange(new_children) \subseteq Descendants(SeqRange(new_parents))

\* rebase -r with --before only.
BeforeOnly ==
    /\ ResolverCalled
    /\ cmd.destination = <<>>
    /\ cmd.insert_after = <<>>
    /\ cmd.insert_before # <<>>

\* The commits that share a parent with a before commit.
BeforeSiblings ==
    LET shared == UNION {ParentSet(b) : b \in SeqRange(cmd.insert_before)}
    IN {c \in visible : ParentSet(c) \cap shared # {}}

C8_BeforeItselfIsNoOp ==
    BeforeOnly /\ pc = "done" /\ (\E a \in Commits : cmd.revisions = {a} /\ cmd.insert_before = <<a>>) =>
        /\ result = Ok
        /\ stats.num_skipped_rebases >= 1
        /\ stats.num_rebased_targets = 0
        /\ stats.num_rebased_descendants = 0

\* The store and the view are the initial ones.
RepositoryUnchanged == Len(store) = NumCommits + 1 /\ visible = 1..(NumCommits + 1)

\* C9: rebase -r with a destination only fails with "onto itself", naming a
\* target that is a destination, before any transaction, exactly if some
\* target is a destination; with --after or --before a target among them
\* never gives that error.
C9_OntoItself ==
    cmd.mode = "r" /\ pc # "invoked" /\ Root \notin cmd.revisions =>
        IF cmd.insert_after = <<>> /\ cmd.insert_before = <<>>
           /\ cmd.revisions \cap SeqRange(cmd.destination) # {}
        THEN /\ pc = "done"
             /\ result.kind = "onto_itself"
             /\ result.commit \in cmd.revisions \cap SeqRange(cmd.destination)
             /\ tx = "none"
             /\ RepositoryUnchanged
        ELSE result.kind # "onto_itself"

\* C9 witness: the error for one of two targets, the other being no
\* destination.
C9_Witness ==
    /\ cmd.mode = "r"
    /\ result.kind = "onto_itself"
    /\ cmd.revisions \ SeqRange(cmd.destination) # {}

\* The target roots of rebase -s and rebase -b.
DescendantRoots ==
    IF cmd.mode = "s" THEN SeqRange(cmd.source)
    ELSE {c \in SeqRange(cmd.branch) \cup UNION {Ancestors({b}) : b \in SeqRange(cmd.branch)} :
             /\ \A d \in SeqRange(cmd.destination) : ~is_ancestor(c, d)
             /\ \A p \in ParentSet(c) : \E d \in SeqRange(cmd.destination) : is_ancestor(p, d)}

\* The check of the destinations of rebase -s and rebase -b, with or without
\* the premise that the target roots are rewritable.
DestinationsChecked(rewritable_only) ==
    cmd.mode \in {"s", "b"} /\ pc # "invoked" /\ (rewritable_only => Root \notin DescendantRoots) =>
        IF SeqRange(cmd.destination) \cap DescendantsIn(Commits, DescendantRoots) # {}
        THEN /\ pc = "done"
             /\ result.kind = "onto_descendant"
             /\ result.commit \in DescendantRoots
             /\ result.parent \in SeqRange(cmd.destination)
             /\ result.parent \in DescendantsIn(Commits, {result.commit})
             /\ tx = "none"
             /\ RepositoryUnchanged
        ELSE /\ result.kind # "onto_descendant"
             /\ Root \notin DescendantRoots /\ pc = "done" => result = Ok \/ tx # "none"

\* C10 as stated: rebase -s / -b fails with "onto descendant" before any
\* transaction, the repository unchanged, exactly if a new parent is a target
\* root or descends from one.
C10_OntoDescendant == DestinationsChecked(FALSE)

\* C10 amended: the same, given that every target root is rewritable; an
\* immutable target root is reported first, by the rewritability check.
C10_OntoDescendantOfRewritable == DestinationsChecked(TRUE)

\* C10 witness: the error for a new parent that is a proper descendant of a
\* target root.
C10_Witness ==
    /\ cmd.mode \in {"s", "b"}
    /\ result.kind = "onto_descendant"
    /\ result.commit # result.parent

-----------------------------------------------------------------------------
\* Properties of the planner

\* rebase -r a -d d, with d a proper descendant of the rewritable commit a.
OntoOwnDescendant(a, d) ==
    /\ cmd.mode = "r"
    /\ cmd.revisions = {a}
    /\ cmd.destination = <<d>>
    /\ cmd.insert_after = <<>>
    /\ cmd.insert_before = <<>>
    /\ a # Root
    /\ a # d
    /\ is_ancestor(a, d)

\* C11: rebase -r A -d D with D a proper descendant of A is accepted; every
\* former descendant of A is rewritten, with A replaced among its parents by
\* the parents of A; the rewritten A has the rewritten D as its only parent;
\* and the resulting graph has no cycle.
C11_OntoOwnDescendant ==
    \A a, d \in 1..(NumCommits + 1) :
        OntoOwnDescendant(a, d) /\ pc # "invoked" =>
            /\ pc = "done" => result = Ok \/ result.kind = "backend"
            /\ Moved =>
                /\ a \in DOMAIN rewritten /\ d \in DOMAIN rewritten
                /\ parent_ids(Successor(a)) = <<Successor(d)>>
                /\ \A c \in DescendantsIn(PreVisible, {a}) \ {a} :
                       /\ c \in DOMAIN rewritten
                       /\ PostParents(c) = (PreParents(c) \ {change_id(a)}) \cup
                              (IF a \in ParentSet(c) THEN PreParents(a) ELSE {})
                /\ \A c \in visible : ParentSet(c) \subseteq visible
                /\ \A c \in visible : change_id(c) \notin ChangeAncestors(ChangeParents(change_id(c)))

\* C11 witness: such a move succeeded with D a grandchild of A.
C11_Witness ==
    /\ Moved
    /\ \E a, d \in 1..(NumCommits + 1) :
           OntoOwnDescendant(a, d) /\ a \notin ParentSet(d)

\* The commit was abandoned by the transaction.
Abandoned(c) == c \in DOMAIN rewritten /\ rewritten[c].abandoned

\* C12: after a successful rebase -s, every source that was not abandoned has
\* exactly the destinations as its parent list, also a source that descends
\* from another source; every other commit of the moved set that was not
\* abandoned keeps each of its parents of the moved set that was not
\* abandoned, and keeps its whole parent set if nothing was abandoned.
C12_SourcesOntoDestination ==
    cmd.mode = "s" /\ Moved =>
        LET T == SeqRange(target_commits)
            sources == SeqRange(cmd.source)
        IN /\ T = DescendantsIn(PreVisible, sources)
           /\ \A r \in sources : ~Abandoned(r) => parent_ids(Successor(r)) = cmd.destination
           /\ \A c \in T \ sources : ~Abandoned(c) =>
                  /\ \A q \in ParentSet(c) \cap T : ~Abandoned(q) => Successor(q) \in ParentSet(Successor(c))
                  /\ (\A t \in T : ~Abandoned(t)) => PostParents(c) = PreParents(c)

\* C12 witness: a successful rebase -s of two sources, one the child of the
\* other, both rewritten onto a destination.
C12_Witness ==
    /\ cmd.mode = "s"
    /\ Moved
    /\ \E r, q \in SeqRange(cmd.source) :
           /\ r \in ParentSet(q)
           /\ ~Abandoned(r) /\ ~Abandoned(q)
           /\ r \in DOMAIN rewritten /\ q \in DOMAIN rewritten

\* The commits outside T met first when walking up from t through commits of
\* T, in the order of the walk (parents left to right), without repetition.
RECURSIVE FirstOutside(_, _)
FirstOutside(t, T) ==
    Unique(FlatMap(LAMBDA p : IF p \in T THEN FirstOutside(p, T) ELSE <<p>>, parent_ids(t)))

\* The documented graph J <- K <- L, J <- M and the command rebase -r K -d M.
HoleExample ==
    /\ parent_ids(2) = <<1>> /\ parent_ids(3) = <<2>> /\ parent_ids(4) = <<1>>
    /\ cmd.mode = "r" /\ cmd.revisions = {2} /\ cmd.destination = <<4>>
    /\ cmd.insert_after = <<>> /\ cmd.insert_before = <<>>

\* C13: every visited commit outside the target set that is no new child of
\* the plan and has a parent in the target set is planned onto its parent
\* list with each target parent replaced, in place, by the first commits
\* outside the target set above it, the other parents kept; rebase -r K -d M
\* on J <- K <- L, J <- M ends with M <- K' and J <- L'.
C13_HoleFilling ==
    /\ pc = "executing" =>
           LET T == SeqRange(target_commits)
               children == SeqRange(NormalizedNewChildren(new_children, target_commits))
           IN \A c \in DOMAIN plan \ (T \cup children) :
                  ParentSet(c) \cap T # {} =>
                      plan[c] = FlatMap(LAMBDA p : IF p \in T THEN FirstOutside(p, T) ELSE <<p>>,
                                        parent_ids(c))
    /\ HoleExample /\ pc = "done" /\ result.kind # "backend" =>
           /\ Moved
           /\ parent_ids(Successor(2)) = <<4>> /\ Successor(2) # 2
           /\ parent_ids(Successor(3)) = <<1>> /\ Successor(3) # 3
           /\ Successor(4) = 4

\* C13 witness: a planned commit outside the target set with a target parent
\* whose own parent is a target too, and with another parent that is kept.
C13_Witness ==
    /\ pc = "executing"
    /\ \E c \in DOMAIN plan \ SeqRange(target_commits) :
           /\ c \notin SeqRange(NormalizedNewChildren(new_children, target_commits))
           /\ \E p \in ParentSet(c) \cap SeqRange(target_commits) :
                  ParentSet(p) \cap SeqRange(target_commits) # {}
           /\ ParentSet(c) \ SeqRange(target_commits) # {}

\* The commits of T reachable from the commits S of T through parents that
\* are in T.
RECURSIVE ReachedInside(_, _)
ReachedInside(S, T) ==
    LET P == UNION {ParentSet(c) : c \in S} \cap T
    IN IF P \subseteq S THEN S ELSE ReachedInside(S \cup P, T)

\* C14: for the target commits of a command, the external-parent map has an
\* entry for every target and only for targets; the entry of t holds, without
\* repetition, exactly the commits outside the target set that are a parent of
\* t or of a target reachable from t through targets only; no entry holds a
\* target.
C14_ExternalParents ==
    pc \in {"resolved", "executing"} =>
        LET T == SeqRange(target_commits)
            external == target_commits_external_parents(target_commits)
        IN /\ DOMAIN external = T
           /\ \A t \in T :
                  /\ SeqRange(external[t]) = UNION {ParentSet(c) : c \in ReachedInside({t}, T)} \ T
                  /\ SeqRange(external[t]) \cap T = {}
                  /\ NoDuplicates(external[t])

\* C14 witness: a target whose parent is a target with a parent outside the
\* target set, and which has a parent outside the target set itself.
C14_Witness ==
    /\ pc = "executing"
    /\ \E t \in SeqRange(target_commits) :
           /\ ParentSet(t) \ SeqRange(target_commits) # {}
           /\ \E p \in ParentSet(t) \cap SeqRange(target_commits) :
                  ParentSet(p) \ (SeqRange(target_commits) \cup ParentSet(t)) # {}

-----------------------------------------------------------------------------
\* The documented graph of rebase -b

\* Longest list of revisions given to a flag on the documented graph.
DocumentedArgs == 1

\* J = 1 (the root), K = 2, L = 3, M = 4, N = 5, O = 6: K and O are children
\* of J, L and M children of K, N a child of M.
DocumentedStore ==
    <<[parent_ids |-> <<>>, change_id |-> 1],
      [parent_ids |-> <<1>>, change_id |-> 2],
      [parent_ids |-> <<2>>, change_id |-> 3],
      [parent_ids |-> <<2>>, change_id |-> 4],
      [parent_ids |-> <<4>>, change_id |-> 5],
      [parent_ids |-> <<1>>, change_id |-> 6]>>

\* The revision lists a flag may resolve to on the documented graph.
DocumentedLists == DistinctSeqs(DOMAIN DocumentedStore, DocumentedArgs) \ {<<>>}

\* The command lines on the documented graph.
DocumentedCommand(c) ==
    \/ \E T \in RevisionSets(DOMAIN DocumentedStore) :
          \/ \E d \in DocumentedLists : c = [NoArgs EXCEPT !.revisions = T, !.destination = d]
          \/ \E a \in DocumentedLists : c = [NoArgs EXCEPT !.revisions = T, !.insert_after = a]
          \/ \E b \in DocumentedLists : c = [NoArgs EXCEPT !.revisions = T, !.insert_before = b]
          \/ \E a \in DocumentedLists, b \in DocumentedLists :
                c = [NoArgs EXCEPT !.revisions = T, !.insert_after = a, !.insert_before = b]
    \/ \E r \in DocumentedLists, d \in DocumentedLists, e \in BOOLEAN :
          c = [NoArgs EXCEPT !.mode = "s", !.source = r, !.destination = d, !.skip_empty = e]
    \/ \E r \in DocumentedLists, d \in DocumentedLists, e \in BOOLEAN :
          c = [NoArgs EXCEPT !.mode = "b", !.branch = r, !.destination = d, !.skip_empty = e]

InitDocumented ==
    /\ store = DocumentedStore
    /\ visible = DOMAIN DocumentedStore
    /\ DocumentedCommand(cmd)
    /\ pc = "invoked"
    /\ result = NoResult
    /\ new_parents = <<>>
    /\ new_children = <<>>
    /\ target_commits = <<>>
    /\ target_roots = <<>>
    /\ plan = EmptyMap
    /\ to_visit = <<>>
    /\ rewritten = EmptyMap
    /\ stats = ZeroStats
    /\ tx = "none"
    /\ run = 1
    /\ NoDiff

SpecDocumented == InitDocumented /\ [][Next]_vars

\* rebase -b L -d O
BranchLOntoO ==
    /\ cmd.mode = "b"
    /\ cmd.branch = <<3>>
    /\ cmd.destination = <<6>>

\* The graph O <- K' <- L', K' <- M' <- N' after rebase -b L -d O without an
\* abandoned commit.
BranchMoved ==
    /\ Moved
    /\ \A c \in {2, 3, 4, 5} : c \in DOMAIN rewritten /\ Successor(c) # c
    /\ parent_ids(Successor(2)) = <<6>>
    /\ parent_ids(Successor(3)) = <<Successor(2)>>
    /\ parent_ids(Successor(4)) = <<Successor(2)>>
    /\ parent_ids(Successor(5)) = <<Successor(4)>>
    /\ visible = {1, 6} \cup {Successor(c) : c \in {2, 3, 4, 5}}

\* C15 as stated: rebase -b L -d O takes K as the only target root, ends with
\* O <- K' <- L' and K' <- M' <- N', and counts 1 rebased target and 3
\* rebased descendants.
C15_BranchCountsOneTarget ==
    BranchLOntoO /\ pc # "invoked" =>
        /\ target_roots = <<2>>
        /\ pc = "done" /\ stats.num_abandoned = 0 /\ result.kind # "backend" =>
               /\ BranchMoved
               /\ stats.num_rebased_targets = 1
               /\ stats.num_rebased_descendants = 3

\* C15 amended: rebase -b L -d O takes K as the only target root, ends with
\* O <- K' <- L' and K' <- M' <- N', and counts K, L, M and N as 4 rebased
\* targets and no rebased descendant.
C15_BranchCountsAllTargets ==
    BranchLOntoO /\ pc # "invoked" =>
        /\ target_roots = <<2>>
        /\ pc = "done" /\ stats.num_abandoned = 0 /\ result.kind # "backend" =>
               /\ BranchMoved
               /\ stats.num_rebased_targets = 4
               /\ stats.num_rebased_descendants = 0
               /\ stats.num_skipped_rebases = 0

\* C15 witness: rebase -b L -d O has ended well without an abandoned commit.
C15_Witness ==
    /\ BranchLOntoO
    /\ Moved
    /\ stats.num_abandoned = 0
    /\ Len(store) = Len(DocumentedStore) + 4

-----------------------------------------------------------------------------
\* Failures

\* C16: a command that ends with an error has not finished a transaction, and
\* the view is the one the command started from, however many commits its
\* transaction had rewritten; the transaction is finished only by a command
\* that ends well.
C16_NoPartialApplication ==
    /\ pc = "done" /\ result # Ok => tx # "finished" /\ visible = 1..(NumCommits + 1)
    /\ tx = "finished" => pc = "done" /\ result = Ok
    /\ pc # "done" => visible = 1..(NumCommits + 1)

\* C16 witness: a rewrite failed after the transaction had rewritten two
\* commits.
C16_Witness ==
    /\ pc = "done"
    /\ result.kind = "backend"
    /\ Cardinality(DOMAIN rewritten) >= 2
    /\ NewCommits # {}

-----------------------------------------------------------------------------
\* jj op diff: the commits that differ between two operations

\* The number of change ids that the commits of a compared store draw from.
MaxChanges == 3

\* The change ids of the commits other than the root.
ChangeIds == (Root + 1)..(Root + MaxChanges)

\* The stores of n commits in which several commits may carry one change id:
\* the rewritten and the divergent commits of a change.
RECURSIVE ChangeStores(_)
ChangeStores(n) ==
    IF n = 1 THEN {<<[parent_ids |-> <<>>, change_id |-> Root]>>}
    ELSE {Append(s, [parent_ids |-> ps, change_id |-> ch]) : s \in ChangeStores(n - 1), ps \in ParentChoices(n - 1), ch \in ChangeIds}

\* The head sets of a view: no head is an ancestor of another head.
HeadSets ==
    {H \in SUBSET Commits : H # {} /\ \A h \in H : Ancestors({h}) \cap H = {h}}

\* revset::walk_revs: the ancestors of wanted that are not ancestors of
\* unwanted, children before parents.
walk_revs(wanted, unwanted) == SeqDesc(Ancestors(wanted) \ Ancestors(unwanted))

\* A ModifiedChange without commits, as the entry of a change id.
NewModifiedChange(ch) == [change_id |-> ch, added_commits |-> <<>>, removed_commits |-> <<>>]

\* The keys of the IndexMap, in insertion order.
Keys(chs) == [i \in 1..Len(chs) |-> chs[i].change_id]

\* changes.entry(change_id).or_insert_with(...): the map with an entry for ch.
OrInsert(chs, ch) == IF InSeq(ch, Keys(chs)) THEN chs ELSE Append(chs, NewModifiedChange(ch))

\* The position of the entry of ch.
EntryOf(chs, ch) == CHOOSE i \in 1..Len(chs) : chs[i].change_id = ch

\* A variant of PushAdded that drops the commit.
PushNothing(chs, commit) == chs

\* modified_change.added_commits.push(commit)
PushAdded(chs, commit) ==
    LET with == OrInsert(chs, change_id(commit))
    IN [with EXCEPT ![EntryOf(with, change_id(commit))].added_commits = Append(@, commit)]

\* A variant of PushRemoved that files the commit among the added ones.
PushRemovedAsAdded(chs, commit) == PushAdded(chs, commit)

\* modified_change.removed_commits.push(commit)
PushRemoved(chs, commit) ==
    LET with == OrInsert(chs, change_id(commit))
    IN [with EXCEPT ![EntryOf(with, change_id(commit))].removed_commits = Append(@, commit)]

\* The changes after the commits of a walk have been filed, first to last.
RECURSIVE PushAll(_, _, _)
PushAll(chs, commits, added) ==
    IF commits = <<>> THEN chs
    ELSE PushAll(IF added THEN PushAdded(chs, commits[1]) ELSE PushRemoved(chs, commits[1]), SubSeq(commits, 2, Len(commits)), added)

\* compute_operation_commits_diff: the commits of to_repo that from_repo lacks
\* are added, the commits of from_repo that to_repo lacks are removed.
compute_operation_commits_diff(from, to) ==
    PushAll(PushAll(<<>>, walk_revs(to, from), TRUE), walk_revs(from, to), FALSE)

\* The commits in the buckets of the changes, added before removed.
BucketCommits(chs) ==
    FlatMap(LAMBDA i : chs[i].added_commits \o chs[i].removed_commits, [i \in 1..Len(chs) |-> i])

\* The change id under which a commit in a bucket was filed last.
FiledUnder(chs, commit) ==
    chs[Max({i \in 1..Len(chs) : InSeq(commit, chs[i].added_commits \o chs[i].removed_commits)})].change_id

\* commit_id_change_id_map: the commit ids in the buckets, with the change id
\* of their entry.
commit_id_change_id_map(chs) ==
    [c \in {BucketCommits(chs)[i] : i \in 1..Len(BucketCommits(chs))} |-> FiledUnder(chs, c)]

\* The change ids of the parents of the given commits that are in the map.
ParentChangesOf(commits, map) ==
    Unique(FlatMap(LAMBDA c : FlatMap(LAMBDA q : IF q \in DOMAIN map THEN <<map[q]>> ELSE <<>>, parent_ids(c)), commits))

\* A variant of get_parent_changes that reads both buckets.
ParentChangesOfBoth(modified_change, map) ==
    ParentChangesOf(modified_change.added_commits \o modified_change.removed_commits, map)

\* get_parent_changes: from the added commits if there are any, else from the
\* removed ones.
get_parent_changes(modified_change, map) ==
    IF modified_change.added_commits # <<>>
    THEN ParentChangesOf(modified_change.added_commits, map)
    ELSE ParentChangesOf(modified_change.removed_commits, map)

\* The parent changes of every change.
ChangeParentsMap(chs) ==
    [ch \in {chs[i].change_id : i \in 1..Len(chs)} |-> get_parent_changes(chs[EntryOf(chs, ch)], commit_id_change_id_map(chs))]

\* dag_walk::topo_order_forward over the change ids: the neighbours of a node
\* are its parent changes.
RECURSIVE topo_order_forward_changes(_, _, _, _, _)
topo_order_forward_changes(stack, visiting, emitted, order, parents) ==
    IF stack = <<>> THEN order
    ELSE LET top == stack[Len(stack)]
             rest == SubSeq(stack, 1, Len(stack) - 1)
         IN IF top.id \in emitted
            THEN topo_order_forward_changes(rest, visiting, emitted, order, parents)
            ELSE IF ~top.neighbors_visited
            THEN IF top.id \in visiting THEN GraphHasCycle
                 ELSE LET neighbors == parents[top.id]
                          pushed == [i \in 1..Len(neighbors) |-> [id |-> neighbors[i], neighbors_visited |-> FALSE]]
                      IN topo_order_forward_changes(
                             rest \o <<[id |-> top.id, neighbors_visited |-> TRUE]>> \o pushed,
                             visiting \cup {top.id}, emitted, order, parents)
            ELSE topo_order_forward_changes(rest, visiting \ {top.id}, emitted \cup {top.id}, Append(order, top.id), parents)

\* dag_walk::topo_order_reverse over the keys of the changes.
OrderedChanges(keys, parents) ==
    LET stack == [i \in 1..Len(keys) |-> [id |-> keys[i], neighbors_visited |-> FALSE]]
        forward == topo_order_forward_changes(stack, {}, {}, <<>>, parents)
    IN IF forward = GraphHasCycle THEN forward ELSE Rev(forward)

\* jj op diff is invoked on two views of a store.
InitOpDiff ==
    /\ store \in ChangeStores(NumCommits + 1)
    /\ visible = DOMAIN store
    /\ from_heads \in HeadSets
    /\ to_heads \in HeadSets
    /\ changes = <<>>
    /\ change_parents = EmptyMap
    /\ ordered_changes = <<>>
    /\ shown = <<>>
    /\ cmd = NoArgs
    /\ pc = "op_diff"
    /\ result = NoResult
    /\ new_parents = <<>>
    /\ new_children = <<>>
    /\ target_commits = <<>>
    /\ target_roots = <<>>
    /\ plan = EmptyMap
    /\ to_visit = <<>>
    /\ rewritten = EmptyMap
    /\ stats = ZeroStats
    /\ tx = "none"
    /\ run = 1

\* What jj op diff leaves alone.
rebase_vars == <<store, visible, cmd, new_parents, new_children, target_commits, target_roots, plan, to_visit, rewritten, stats, tx, run>>

\* show_op_diff: the commits that differ are filed under their change ids.
ComputeOperationCommitsDiff ==
    /\ pc = "op_diff"
    /\ changes' = compute_operation_commits_diff(from_heads, to_heads)
    /\ pc' = "op_diff_commits"
    /\ UNCHANGED <<from_heads, to_heads, change_parents, ordered_changes, shown, result>>
    /\ UNCHANGED rebase_vars

\* show_op_diff: the parent changes of every change.
ComputeChangeParents ==
    /\ pc = "op_diff_commits"
    /\ change_parents' = ChangeParentsMap(changes)
    /\ pc' = "op_diff_parents"
    /\ UNCHANGED <<from_heads, to_heads, changes, ordered_changes, shown, result>>
    /\ UNCHANGED rebase_vars

\* show_op_diff: the changes are ordered; a cycle of parent changes panics.
OrderChanges ==
    /\ pc = "op_diff_parents"
    /\ LET order == OrderedChanges(Keys(changes), change_parents)
       IN IF order = GraphHasCycle
          THEN /\ result' = Err("panic", 0)
               /\ pc' = "done"
               /\ UNCHANGED ordered_changes
          ELSE /\ pc' = "op_diff_ordered"
               /\ ordered_changes' = order
               /\ UNCHANGED result
    /\ UNCHANGED <<from_heads, to_heads, changes, change_parents, shown>>
    /\ UNCHANGED rebase_vars

\* Nothing is rendered below the summary of the change.
NoContentDiff == [kind |-> "none", predecessor |-> 0, onto |-> <<>>, commit |-> 0]

\* diff_renderer.show_patch of a commit.
ShowPatch(commit) == [kind |-> "show_patch", predecessor |-> 0, onto |-> <<>>, commit |-> commit]

\* diff_renderer.show_diff from the predecessor's tree, rebased onto the
\* parents of the commit (rebase_to_dest_parent), to the commit's tree.
ShowDiff(predecessor, commit) == [kind |-> "show_diff", predecessor |-> predecessor, onto |-> parent_ids(commit), commit |-> commit]

\* show_change_diff: what is rendered for a modified change.
show_change_diff(modified_change) ==
    IF Len(modified_change.added_commits) = 1 /\ Len(modified_change.removed_commits) = 1
    THEN ShowDiff(modified_change.removed_commits[1], modified_change.added_commits[1])
    ELSE IF Len(modified_change.added_commits) = 1
    THEN ShowPatch(modified_change.added_commits[1])
    ELSE IF Len(modified_change.removed_commits) = 1
    THEN ShowPatch(modified_change.removed_commits[1])
    ELSE NoContentDiff

\* show_op_diff: the loop over the ordered changes, with a diff renderer.
ShowChangeDiffs ==
    /\ pc = "op_diff_ordered"
    /\ shown' = [i \in 1..Len(ordered_changes) |-> show_change_diff(changes[EntryOf(changes, ordered_changes[i])])]
    /\ result' = Ok
    /\ pc' = "done"
    /\ UNCHANGED <<from_heads, to_heads, changes, change_parents, ordered_changes>>
    /\ UNCHANGED rebase_vars

NextOpDiff ==
    \/ ComputeOperationCommitsDiff
    \/ ComputeChangeParents
    \/ OrderChanges
    \/ ShowChangeDiffs

SpecOpDiff == InitOpDiff /\ [][NextOpDiff]_vars

\* The changes have been computed.
Diffed == pc \in {"op_diff_commits", "op_diff_parents", "op_diff_ordered", "done"}

\* The number of times x occurs in s.
Count(s, x) == Cardinality({i \in 1..Len(s) : s[i] = x})

\* Two sequences hold the same elements the same number of times.
SameMultiset(s, t) ==
    \A x \in {s[i] : i \in 1..Len(s)} \cup {t[i] : i \in 1..Len(t)} : Count(s, x) = Count(t, x)

\* The change ids with an entry.
KeySet(chs) == {chs[i].change_id : i \in 1..Len(chs)}

\* The entry of a change id.
Entry(chs, ch) == chs[EntryOf(chs, ch)]

-----------------------------------------------------------------------------
\* Properties of the op diff

\* C17: for each change id the added commits of the diff from a to b are, as
\* multisets, the removed commits of the diff from b to a, and the removed
\* ones are the added ones of the diff from b to a; the two diffs have entries
\* for the same change ids.
C17_DiffSymmetry ==
    Diffed =>
        LET back == compute_operation_commits_diff(to_heads, from_heads)
        IN /\ KeySet(changes) = KeySet(back)
           /\ \A ch \in KeySet(changes) :
                  /\ SameMultiset(Entry(changes, ch).added_commits, Entry(back, ch).removed_commits)
                  /\ SameMultiset(Entry(changes, ch).removed_commits, Entry(back, ch).added_commits)

\* C17 witness: a diff in which one change has an added and a removed commit
\* and another change has only added or only removed commits.
C17_Witness ==
    /\ Diffed
    /\ \E ch \in KeySet(changes) :
           /\ Entry(changes, ch).added_commits # <<>>
           /\ Entry(changes, ch).removed_commits # <<>>
    /\ \E ch \in KeySet(changes) :
           (Entry(changes, ch).added_commits = <<>>) # (Entry(changes, ch).removed_commits = <<>>)

\* The commits that one of the two views has and the other lacks.
SymmetricDifference ==
    (Ancestors(to_heads) \ Ancestors(from_heads)) \cup (Ancestors(from_heads) \ Ancestors(to_heads))

\* The number of times a commit occurs in the buckets of an entry.
Occurrences(entry, c) == Count(entry.added_commits, c) + Count(entry.removed_commits, c)

\* The number of times a commit occurs in all buckets.
RECURSIVE TotalOccurrences(_, _)
TotalOccurrences(chs, c) ==
    IF chs = <<>> THEN 0
    ELSE Occurrences(chs[1], c) + TotalOccurrences(SubSeq(chs, 2, Len(chs)), c)

\* C18: a commit that one view has and the other lacks is in one bucket of one
\* entry, once, and that entry is the one of its change id; a commit of both
\* views or of neither is in no bucket; no change id has two entries.
C18_DiffCompleteness ==
    Diffed =>
        /\ \A c \in Commits :
               /\ TotalOccurrences(changes, c) = (IF c \in SymmetricDifference THEN 1 ELSE 0)
               /\ \A i \in 1..Len(changes) :
                      Occurrences(changes[i], c) > 0 => changes[i].change_id = change_id(c)
        /\ NoDuplicates(Keys(changes))

\* C18 witness: two commits of one change id differ, one on each side, and a
\* commit other than the root is in both views.
C18_Witness ==
    /\ Diffed
    /\ \E c, d \in SymmetricDifference :
           /\ c # d
           /\ change_id(c) = change_id(d)
           /\ c \in Ancestors(to_heads)
           /\ d \in Ancestors(from_heads)
    /\ (Ancestors(to_heads) \cap Ancestors(from_heads)) # {Root}

\* The parent changes have been computed.
Parented == pc \in {"op_diff_parents", "op_diff_ordered", "done"}

\* The elements of a sequence.
Elements(s) == {s[i] : i \in 1..Len(s)}

\* The parents of the given commits that are in a bucket of some change.
BucketParents(commits) ==
    {q \in SymmetricDifference : \E c \in Elements(commits) : q \in ParentSet(c)}

\* C19: the parent changes of a change are a list without duplicates of the
\* change ids of those parents of its added commits that are in a bucket, if
\* it has an added commit, and of those parents of its removed commits
\* otherwise.
C19_ParentChanges ==
    Parented =>
        /\ DOMAIN change_parents = KeySet(changes)
        /\ \A ch \in KeySet(changes) :
               /\ NoDuplicates(change_parents[ch])
               /\ Elements(change_parents[ch]) =
                      {change_id(q) : q \in BucketParents(
                          IF Entry(changes, ch).added_commits # <<>>
                          THEN Entry(changes, ch).added_commits
                          ELSE Entry(changes, ch).removed_commits)}

\* C19 witness: a change with an added commit has a removed commit whose parent
\* is in a bucket of a change that is not among its parent changes, while
\* that other change has removed commits only.
C19_Witness ==
    /\ Parented
    /\ \E ch \in KeySet(changes) :
           /\ Entry(changes, ch).added_commits # <<>>
           /\ \E q \in BucketParents(Entry(changes, ch).removed_commits) :
                  ~InSeq(change_id(q), change_parents[ch])
    /\ \E ch \in KeySet(changes) : Entry(changes, ch).added_commits = <<>>

\* The position of a change id in the order.
PositionOf(order, ch) == CHOOSE i \in 1..Len(order) : order[i] = ch

\* The order holds every change once, each before its parent changes.
ChildrenFirst(order) ==
    /\ NoDuplicates(order)
    /\ Elements(order) = KeySet(changes)
    /\ \A ch \in KeySet(changes) :
           \A q \in Elements(change_parents[ch]) : PositionOf(order, ch) < PositionOf(order, q)

\* C20: for every pair of views the ordering step completes, and its order
\* holds every changed change id once, each before all of its parent changes.
C20_OrderAlwaysCompletes ==
    pc = "done" => result = Ok /\ ChildrenFirst(ordered_changes)

\* The content diffs have been rendered.
Shown == pc = "done" /\ result = Ok /\ Len(shown) = Len(ordered_changes)

\* What was rendered for a change id.
ShownFor(ch) == shown[PositionOf(ordered_changes, ch)]

\* C21: one added and one removed commit render the removed commit, rebased
\* onto the parents of the added one, against the added commit; one added and
\* no removed commit render the patch of the added one; no added and one
\* removed commit render the patch of the removed one; every other pair of
\* bucket sizes renders no content diff.
C21_ContentDiffOnlyForSingleCommits ==
    Shown =>
        \A ch \in KeySet(changes) :
            LET added == Entry(changes, ch).added_commits
                removed == Entry(changes, ch).removed_commits
            IN ShownFor(ch) =
                   IF Len(added) = 1 /\ Len(removed) = 1 THEN ShowDiff(removed[1], added[1])
                   ELSE IF Len(added) = 1 /\ Len(removed) = 0 THEN ShowPatch(added[1])
                   ELSE IF Len(added) = 0 /\ Len(removed) = 1 THEN ShowPatch(removed[1])
                   ELSE NoContentDiff

-----------------------------------------------------------------------------
\* Properties of the plan

\* The targets without a child in the connected target set.
HeadsOfTargets(T) == {t \in T : ~\E c \in Connected(T) : t \in ParentSet(c)}

\* The normalized new parents and new children of the plan.
PlanNewParents == NormalizedNewParentIds(new_parents, target_commits)

PlanNewChildren == NormalizedNewChildren(new_children, target_commits)

\* The parents of c, each target among them replaced by the first commits
\* outside the target set above it, without the new parents of the plan.
ReplacedAndFiltered(c, T) ==
    Filter(LAMBDA id : ~InSeq(id, PlanNewParents),
           FlatMap(LAMBDA q : IF q \in T THEN FirstOutside(q, T) ELSE <<q>>, parent_ids(c)))

\* C22: the planned parents of every new child are its parents, each target
\* among them replaced by that target's external parents, without the new
\* parents, followed by the target heads not yet listed; the list has no
\* duplicates; this holds for a new child whatever else the commit is.
C22_NewChildParents ==
    pc = "executing" =>
        LET T == SeqRange(target_commits)
        IN \A c \in SeqRange(PlanNewChildren) :
               LET base == Unique(ReplacedAndFiltered(c, T))
               IN /\ c \in DOMAIN plan
                  /\ NoDuplicates(plan[c])
                  /\ Len(plan[c]) >= Len(base)
                  /\ SubSeq(plan[c], 1, Len(base)) = base
                  /\ SeqRange(plan[c]) = SeqRange(base) \cup HeadsOfTargets(T)

\* C22 witness: a new child that has a new parent and a target among its
\* parents, with a target that is no head.
C22_Witness ==
    /\ pc = "executing"
    /\ \E c \in SeqRange(PlanNewChildren) :
           /\ ParentSet(c) \cap SeqRange(PlanNewParents) # {}
           /\ ParentSet(c) \cap SeqRange(target_commits) # {}
    /\ HeadsOfTargets(SeqRange(target_commits)) # SeqRange(target_commits)

\* The target roots of the plan.
PlanRoots == TargetRoots(target_commits, target_roots)

\* The targets met first when walking up from a commit of the connected
\* target set through commits outside the target set, in the order of the
\* walk.
RECURSIVE FirstInside(_, _)
FirstInside(c, T) ==
    FlatMap(LAMBDA q : IF q \in T THEN <<q>> ELSE IF q \in Connected(T) THEN FirstInside(q, T) ELSE <<>>, parent_ids(c))

\* The parent is a new child of the plan or descends from one.
BelowNewChild(q) == q \in Descendants(SeqRange(PlanNewChildren))

\* The targets that are neither a target root nor a new child.
InnerTargets == SeqRange(target_commits) \ (PlanRoots \cup SeqRange(PlanNewChildren))

\* C23: the planned parents of a target that is no target root and no new
\* child are its parents in order, a target kept, a commit of the connected
\* target set outside the target set replaced by the targets first met above
\* it, any other parent kept unless it is a new child or descends from one;
\* the list is not empty.
C23_InnerTargetParents ==
    pc = "executing" =>
        LET T == SeqRange(target_commits)
        IN \A c \in InnerTargets :
               /\ plan[c] = FlatMap(LAMBDA q : IF q \in T THEN <<q>>
                                              ELSE IF q \in Connected(T) THEN FirstInside(q, T)
                                              ELSE IF BelowNewChild(q) THEN <<>>
                                              ELSE <<q>>,
                                    parent_ids(c))
               /\ plan[c] # <<>>

\* C23 witness: an inner target loses a parent that is a new child or below
\* one, and keeps a target parent.
C23_Witness ==
    /\ pc = "executing"
    /\ \E c \in InnerTargets :
           /\ \E q \in ParentSet(c) \ Connected(SeqRange(target_commits)) : BelowNewChild(q)
           /\ ParentSet(c) \cap SeqRange(target_commits) # {}

-----------------------------------------------------------------------------
\* Properties of the executor

\* The popped commits by what the executor did with them.
SkippedCommits == Popped \ DOMAIN rewritten

AbandonedCommits == {c \in DOMAIN rewritten : rewritten[c].abandoned}

RebasedTargets == {c \in DOMAIN rewritten : ~rewritten[c].abandoned /\ InSeq(c, target_commits)}

RebasedDescendants == {c \in DOMAIN rewritten : ~rewritten[c].abandoned /\ ~InSeq(c, target_commits)}

\* The sum of the four counters.
StatsTotal ==
    stats.num_skipped_rebases + stats.num_abandoned + stats.num_rebased_targets + stats.num_rebased_descendants

\* C24: every popped commit of the visit set is counted once, as skipped when
\* its resolved planned parents are its current parents and nothing was
\* written for it, as abandoned, as a rebased target when it was rewritten and
\* is a target, or as a rebased descendant when it was rewritten and is no
\* target; when the loop ends the four counters add up to the number of
\* descendants of the target roots and the new children.
C24_EveryVisitedCommitCountedOnce ==
    /\ pc = "executing" \/ Moved =>
           /\ DOMAIN rewritten \subseteq Popped
           /\ stats.num_skipped_rebases = Cardinality(SkippedCommits)
           /\ stats.num_abandoned = Cardinality(AbandonedCommits)
           /\ stats.num_rebased_targets = Cardinality(RebasedTargets)
           /\ stats.num_rebased_descendants = Cardinality(RebasedDescendants)
           /\ StatsTotal = Cardinality(Popped)
           /\ \A c \in SkippedCommits : mut_repo_new_parents(plan[c]) = parent_ids(c)
           /\ \A c \in RebasedTargets \cup RebasedDescendants : parent_ids(Successor(c)) # parent_ids(c)
    /\ pc = "executing" => DOMAIN plan = Descendants(PlanRoots \cup SeqRange(PlanNewChildren))
    /\ Moved => StatsTotal = Cardinality(DOMAIN plan)

\* C24 witness: a successful move that skipped a commit, rebased a target and
\* rebased a descendant.
C24_Witness ==
    /\ Moved
    /\ stats.num_skipped_rebases >= 1
    /\ stats.num_rebased_targets >= 1
    /\ stats.num_rebased_descendants >= 1

-----------------------------------------------------------------------------
\* Properties of the normalized arguments

\* The targets are listed children before parents.
ReverseTopological(targets) ==
    \A i, j \in 1..Len(targets) : i < j => ~is_ancestor(targets[i], targets[j]) \/ targets[i] = targets[j]

\* C25: the targets reach move_commits children before parents, and neither
\* the normalized new parents nor the normalized new children hold a target,
\* also when the given new parents or new children do.
C25_NormalizedOutsideTargets ==
    pc \in {"resolved", "executing"} =>
        /\ ReverseTopological(target_commits)
        /\ SeqRange(PlanNewParents) \cap SeqRange(target_commits) = {}
        /\ SeqRange(PlanNewChildren) \cap SeqRange(target_commits) = {}

\* C25 witness: a plan whose given new parents hold a target and whose given
\* new children hold a target with a child outside the target set.
C25_Witness ==
    /\ pc = "executing"
    /\ SeqRange(new_parents) \cap SeqRange(target_commits) # {}
    /\ \E c \in SeqRange(new_children) \cap SeqRange(target_commits) :
           Children({c}) \ SeqRange(target_commits) # {}

\* The targets without a proper ancestor in the target set.
MinimalTargets(T) == {t \in T : Ancestors({t}) \cap T = {t}}

\* The targets without a proper descendant in the target set.
MaximalTargets(T) == {t \in T : Descendants({t}) \cap T = {t}}

\* C26: when no target roots are given and there are targets, the derived
\* roots are the commits of the connected target set without internal
\* parents, they are targets and there is one, every target descends from a
\* derived root, and the target heads are targets and there is one; no commit
\* of the connected target set outside the target set is a root or a head.
C26_DerivedRootsAndHeads ==
    pc = "executing" /\ target_roots = <<>> =>
        LET T == SeqRange(target_commits)
            internal == connected_target_commits_internal_parents(target_commits)
            heads == SeqRange(target_heads(target_commits))
        IN /\ PlanRoots = {c \in Connected(T) : internal[c] = <<>>}
           /\ PlanRoots # {} /\ PlanRoots \subseteq T
           /\ PlanRoots = MinimalTargets(T)
           /\ T \subseteq Descendants(PlanRoots)
           /\ heads # {} /\ heads \subseteq T
           /\ heads = MaximalTargets(T)
           /\ heads = HeadsOfTargets(T)

\* C26 witness: a plan with derived roots, with new children, and with a
\* commit between two targets that is no target.
C26_Witness ==
    /\ pc = "executing"
    /\ target_roots = <<>>
    /\ PlanNewChildren # <<>>
    /\ Connected(SeqRange(target_commits)) # SeqRange(target_commits)

-----------------------------------------------------------------------------
\* Properties of the moved graph

\* The commits that stand for c after the move: its rewritten commit, the
\* stand-ins of its new parents if it was abandoned, or c itself.
StandIns(c) == SeqRange(mut_repo_new_parents(<<c>>))

\* The executor loop has ended without an error: what is left of the move is
\* tx.finish, which publishes the view.
LoopEnded == pc = "executing" /\ to_visit = <<>>

\* The view that tx.finish publishes.
PostVisible == (visible \ DOMAIN rewritten) \cup NewCommits

\* C27: after a successful move with new parents, every target that was not
\* abandoned descends from every new parent, and every new child that was not
\* abandoned has every target head among its parents; commits are read
\* through the rewrites of the move.
C27_MovedBetweenParentsAndChildren ==
    LoopEnded /\ PlanNewParents # <<>> =>
        LET T == SeqRange(target_commits)
        IN /\ \A t \in T : ~Abandoned(t) =>
                  \A q \in SeqRange(PlanNewParents) : \A r \in StandIns(q) :
                      Successor(t) \in DescendantsIn(PostVisible, {r}) /\ Successor(t) # r
           /\ \A c \in SeqRange(PlanNewChildren) : ~Abandoned(c) =>
                  \A h \in HeadsOfTargets(T) :
                      StandIns(h) \subseteq ParentSet(Successor(c))

\* C27 witness: the loop of an insertion of two targets, one the parent of the
\* other, between a new parent and a new child has ended, and both targets
\* were rewritten.
C27_Witness ==
    /\ LoopEnded
    /\ PlanNewParents # <<>>
    /\ PlanNewChildren # <<>>
    /\ \E t, u \in SeqRange(target_commits) : t \in ParentSet(u)
    /\ \A t \in SeqRange(target_commits) : t \in DOMAIN rewritten /\ ~Abandoned(t)

\* C28: no planned parent list holds the commit it is planned for, and none
\* holds a commit twice.
C28_PlannedParentsDistinct ==
    pc = "executing" =>
        \A c \in DOMAIN plan : ~InSeq(c, plan[c]) /\ NoDuplicates(plan[c])

\* The commit has a parent that the plan replaces: a target or a commit of
\* the connected target set.
HasReplacedParent(c) == ParentSet(c) \cap Connected(SeqRange(target_commits)) # {}

\* C28, for the lists the planner builds without replacing a commit by a
\* list: no planned parent list holds the commit it is planned for; the list
\* of a new child holds no commit twice; the list of a target root holds no
\* commit twice unless a given new parent is a target; the list of any other
\* commit holds no commit twice unless one of its parents is replaced.
C28_PlannedParentsWithoutSelf ==
    pc = "executing" =>
        \A c \in DOMAIN plan :
            /\ ~InSeq(c, plan[c])
            /\ InSeq(c, PlanNewChildren) => NoDuplicates(plan[c])
            /\ ~InSeq(c, PlanNewChildren) /\ c \in PlanRoots /\ InSeq(c, target_commits) =>
                   (SeqRange(new_parents) \cap SeqRange(target_commits) = {} => NoDuplicates(plan[c]))
            /\ ~InSeq(c, PlanNewChildren) /\ ~(c \in PlanRoots /\ InSeq(c, target_commits)) =>
                   (~HasReplacedParent(c) => NoDuplicates(plan[c]))

\* C28 witness: a merge outside the target set whose two parents are replaced
\* by the same commit is planned with that commit twice, next to a target
\* root planned onto the new parents.
C28_Witness ==
    /\ pc = "executing"
    /\ \E c \in DOMAIN plan \ SeqRange(target_commits) :
           /\ Len(parent_ids(c)) = 2
           /\ HasReplacedParent(c)
           /\ ~NoDuplicates(plan[c])
    /\ \E r \in PlanRoots : plan[r] = PlanNewParents

====
